---- MODULE Spec2Model ----
(***************************************************************************)
(* Widget and window identifiers of core/src/id.rs: the two global atomic  *)
(* counters, the allocators drawing from them, the three-variant Internal  *)
(* identifier with its structural equality (PartialEq), its domain         *)
(* equivalence (IdEq), its Hash implementation and its conversion to a     *)
(* NonZeroU128 handle.                                                     *)
(*                                                                         *)
(* Spec   : concurrent callers of Id::unique, Id::new, Id::reset and       *)
(*          window_node_id, each call split at its one atomic operation.   *)
(* SpecEq : the pure functions applied to every pair of identifiers of a   *)
(*          bounded universe.                                              *)
(***************************************************************************)
EXTENDS Integers, Sequences, FiniteSets, TLC

(***************************************************************************)
(* Bounds of the model.                                                    *)
(***************************************************************************)
\* number of concurrent caller threads
NumThreads == 2
\* general-namespace allocations (Id::unique / Id::new) in one run
MaxAllocs == 2
\* window_node_id calls in one run
MaxWindows == 2
\* Id::reset calls in one run
MaxResets == 1
\* size of an identifier of the universe of SpecEq: one node per Unique,
\* Custom or Set, members included
MaxNodes == 3

Threads == 1..NumThreads
\* names given to Id::new
Names == {"save", "load"}

(***************************************************************************)
(* u64 and u128 as little-endian sequences of 16-bit limbs, so that the    *)
(* widths of the source are kept: fetch_add wraps at 2^64 and u64::MAX as  *)
(* u128 + n is computed in 128 bits.                                       *)
(***************************************************************************)
LimbBase == 2^16
U64Limbs == 64 \div 16
U128Limbs == 128 \div 16

\* the u64 of a small natural number n < LimbBase
U64(n) == [i \in 1..U64Limbs |-> IF i = 1 THEN n ELSE 0]
U64_MAX == [i \in 1..U64Limbs |-> LimbBase - 1]
Zero128 == [i \in 1..U128Limbs |-> 0]

\* `x as u128` of a u64: zero extension
AsU128(x) == [i \in 1..U128Limbs |-> IF i <= Len(x) THEN x[i] ELSE 0]

RECURSIVE Carry(_, _, _)
Carry(x, y, i) ==
    IF i = 0 THEN 0 ELSE (x[i] + y[i] + Carry(x, y, i - 1)) \div LimbBase

\* addition modulo 2^(16 * Len(x)) of two numbers of the same width
WrappingAdd(x, y) ==
    [i \in 1..Len(x) |-> (x[i] + y[i] + Carry(x, y, i - 1)) % LimbBase]

RECURSIVE LessFrom(_, _, _)
LessFrom(x, y, i) ==
    IF i = 0 THEN FALSE
    ELSE IF x[i] # y[i] THEN x[i] < y[i]
    ELSE LessFrom(x, y, i - 1)

\* x < y for two numbers of the same width
Less(x, y) == LessFrom(x, y, Len(x))

(***************************************************************************)
(* Internal, the representation of an Id.                                  *)
(***************************************************************************)
Unique(id) == [tag |-> "Unique", id |-> id]
Custom(id, name) == [tag |-> "Custom", id |-> id, name |-> name]
Set(ids) == [tag |-> "Set", ids |-> ids]

\* impl From<u64> for Id
FromU64(value) == Unique(value)

\* sequence numbers handed to From<u64>, which accepts every u64
U64Samples == {0, 1}
\* sequence numbers the allocator gives to Id::new
AllocSamples == {1, 2}

Atoms ==
    {FromU64(U64(v)) : v \in U64Samples}
        \cup {Custom(U64(v), n) : v \in AllocSamples, n \in Names}

RECURSIVE IdsOfSize(_)
RECURSIVE VecsOfSize(_)
\* the vectors of identifiers that have m nodes altogether
VecsOfSize(m) ==
    IF m = 0 THEN {<<>>}
    ELSE UNION {{<<x>> \o rest : x \in IdsOfSize(k), rest \in VecsOfSize(m - k)}
                    : k \in 1..m}

\* the identifiers of exactly n nodes
IdsOfSize(n) ==
    (IF n = 1 THEN Atoms ELSE {}) \cup {Set(s) : s \in VecsOfSize(n - 1)}

\* the universe of SpecEq
Ids == UNION {IdsOfSize(n) : n \in 1..MaxNodes}

(***************************************************************************)
(* impl PartialEq for Internal; Vec<Internal> == Vec<Internal> compares    *)
(* the lengths and then the members in order, with PartialEq.              *)
(***************************************************************************)
RECURSIVE PartialEq_Derived(_, _)
PartialEq_Derived(l, r) ==
    CASE l.tag = "Unique" /\ r.tag = "Unique" -> l.id = r.id
      [] l.tag = "Custom" /\ r.tag = "Custom" -> l.id = r.id /\ l.name = r.name
      [] l.tag = "Set" /\ r.tag = "Set" ->
            /\ Len(l.ids) = Len(r.ids)
            /\ \A i \in 1..Len(l.ids) : PartialEq_Derived(l.ids[i], r.ids[i])
      [] OTHER -> FALSE

RECURSIVE PartialEq(_, _)
PartialEq(l, r) ==
    CASE l.tag = "Unique" /\ r.tag = "Unique" -> l.id = r.id
      [] l.tag = "Custom" /\ r.tag = "Custom" -> l.name = r.name
      [] l.tag = "Set" /\ r.tag = "Set" ->
            /\ Len(l.ids) = Len(r.ids)
            /\ \A i \in 1..Len(l.ids) : PartialEq(l.ids[i], r.ids[i])
      [] OTHER -> FALSE

(***************************************************************************)
(* impl IdEq for Internal.  In the last arm `l == r` is the == operator,   *)
(* which is PartialEq, not IdEq::eq.                                       *)
(***************************************************************************)
IdEq_BothMatch(l, r) ==
    CASE l.tag = "Unique" /\ r.tag = "Unique" -> l.id = r.id
      [] l.tag = "Custom" /\ r.tag = "Custom" -> l.id = r.id /\ l.name = r.name
      [] l.tag = "Unique" /\ r.tag = "Custom" -> l.id = r.id
      [] l.tag = "Custom" /\ r.tag = "Unique" -> l.id = r.id
      [] l.tag = "Set" /\ r.tag = "Set" -> PartialEq(l, r)
      [] l.tag = "Set" -> \E i \in 1..Len(l.ids) : PartialEq(l.ids[i], r)
      [] OTHER -> \E i \in 1..Len(r.ids) : PartialEq(r.ids[i], l)

IdEq(l, r) ==
    CASE l.tag = "Unique" /\ r.tag = "Unique" -> l.id = r.id
      [] l.tag = "Custom" /\ r.tag = "Custom" -> l.id = r.id \/ l.name = r.name
      [] l.tag = "Unique" /\ r.tag = "Custom" -> l.id = r.id
      [] l.tag = "Custom" /\ r.tag = "Unique" -> l.id = r.id
      [] l.tag = "Set" /\ r.tag = "Set" -> PartialEq(l, r)
      [] l.tag = "Set" -> \E i \in 1..Len(l.ids) : PartialEq(l.ids[i], r)
      [] OTHER -> \E i \in 1..Len(r.ids) : PartialEq(r.ids[i], l)

(***************************************************************************)
(* impl Hash for Internal: the calls made on the Hasher, in order.  The    *)
(* Custom arm binds the first field, the u64, under the name `name`.       *)
(* Vec<T>::hash writes the length and then hashes each member.             *)
(***************************************************************************)
RECURSIVE Concat(_)
Concat(ss) == IF ss = <<>> THEN <<>> ELSE Head(ss) \o Concat(Tail(ss))

RECURSIVE Hash(_)
Hash(x) ==
    CASE x.tag = "Unique" -> <<[write |-> "u64", v |-> x.id]>>
      [] x.tag = "Custom" -> <<[write |-> "u64", v |-> x.id]>>
      [] OTHER ->
            <<[write |-> "usize", v |-> U64(Len(x.ids))]>>
                \o Concat([i \in 1..Len(x.ids) |-> Hash(x.ids[i])])

(***************************************************************************)
(* NonZeroU128::try_from(v).unwrap() and impl From<Id> for NonZeroU128.    *)
(***************************************************************************)
TryFromUnwrap(v) ==
    IF v = Zero128 THEN [panic |-> TRUE, value |-> Zero128]
    ELSE [panic |-> FALSE, value |-> v]

IntoNonZeroU128(x) ==
    CASE x.tag = "Unique" -> TryFromUnwrap(AsU128(x.id))
      [] x.tag = "Custom" -> TryFromUnwrap(AsU128(x.id))
      [] OTHER -> [panic |-> TRUE, value |-> Zero128]

(***************************************************************************)
(* The statics and the functions on them.  An operator takes the statics   *)
(* as a record and gives the statics after the call.                       *)
(***************************************************************************)
VARIABLES NEXT_ID, NEXT_WINDOW_ID

Statics == [NEXT_ID |-> NEXT_ID, NEXT_WINDOW_ID |-> NEXT_WINDOW_ID]

\* AtomicU64::fetch_add: the previous value, and the sum, wrapping, stored
fetch_add(counter, val) ==
    [old |-> counter, new |-> WrappingAdd(counter, val)]

next_Load(s) == [ret |-> s.NEXT_ID, statics |-> s]

\* Id::next
next(s) ==
    LET r == fetch_add(s.NEXT_ID, U64(1))
    IN  [ret |-> r.old, statics |-> [s EXCEPT !.NEXT_ID = r.new]]

reset_ToZero(s) == [s EXCEPT !.NEXT_ID = U64(0)]

reset_Both(s) == [s EXCEPT !.NEXT_ID = U64(1), !.NEXT_WINDOW_ID = U64(1)]

\* Id::reset
reset(s) == [s EXCEPT !.NEXT_ID = U64(1)]

\* the fetch_add of window_node_id
window_fetch(s) ==
    LET r == fetch_add(s.NEXT_WINDOW_ID, U64(1))
    IN  [ret |-> r.old, statics |-> [s EXCEPT !.NEXT_WINDOW_ID = r.new]]

window_handle_NoOffset(fetched) == TryFromUnwrap(AsU128(fetched))

\* the value window_node_id builds from what it fetched; the sum of two
\* numbers below 2^64 does not overflow 128 bits
window_handle(fetched) ==
    TryFromUnwrap(WrappingAdd(AsU128(U64_MAX), AsU128(fetched)))

(***************************************************************************)
(* Concurrent callers.  A call of Id::unique, Id::new or window_node_id    *)
(* is two steps: its atomic fetch_add, then the construction of what it    *)
(* returns from the fetched value held in the caller's frame.  Callers     *)
(* differ only in the frame they hold, so the threads inside a call are    *)
(* the set of their frames.                                                *)
(***************************************************************************)
VARIABLES
    inflight,   \* the frames of the calls that are past their fetch_add
    results,    \* the identifiers Id::unique and Id::new have returned
    windows,    \* the handles window_node_id has returned
    allocs,     \* number of Id::next calls so far
    sinceReset, \* number of Id::next calls since the last Id::reset
    resets,     \* number of Id::reset calls so far
    winCalls    \* number of window_node_id calls so far

\* operands and result of the pure functions (SpecEq)
VARIABLES a, b, op, out

vars ==
    <<NEXT_ID, NEXT_WINDOW_ID, inflight, results, windows, allocs,
      sinceReset, resets, winCalls, a, b, op, out>>

allocVars ==
    <<NEXT_ID, NEXT_WINDOW_ID, inflight, results, windows, allocs,
      sinceReset, resets, winCalls>>

\* a thread is free to start a call
ThreadIdle == Cardinality(inflight) < NumThreads

\* static NEXT_ID, NEXT_WINDOW_ID: AtomicU64::new(1)
InitStatics ==
    /\ NEXT_ID = U64(1)
    /\ NEXT_WINDOW_ID = U64(1)
    /\ inflight = {}
    /\ results = {}
    /\ windows = {}
    /\ allocs = 0
    /\ sinceReset = 0
    /\ resets = 0
    /\ winCalls = 0

Init ==
    /\ InitStatics
    /\ a = Set(<<>>)
    /\ b = Set(<<>>)
    /\ op = "none"
    /\ out = FALSE

\* the Self::next() of Id::unique (kind "unique") or Id::new (kind "new")
CallNext(kind, name) ==
    /\ ThreadIdle
    /\ allocs < MaxAllocs
    /\ LET r == next(Statics)
       IN  /\ NEXT_ID' = r.statics.NEXT_ID
           /\ NEXT_WINDOW_ID' = r.statics.NEXT_WINDOW_ID
           /\ inflight' = inflight \cup
                 {[kind |-> kind, id |-> r.ret, name |-> name,
                   call |-> allocs + 1, epoch |-> resets,
                   k |-> sinceReset + 1]}
    /\ allocs' = allocs + 1
    /\ sinceReset' = sinceReset + 1
    /\ UNCHANGED <<results, windows, resets, winCalls, a, b, op, out>>

\* Id::unique, up to and including `let id = Self::next()`
UniqueFetch == CallNext("unique", "")

\* Id::new(name), up to and including Self::next()
NewFetch == \E name \in Names : CallNext("new", name)

Return(f, id) ==
    /\ results' = results \cup
          {[call |-> f.call, kind |-> f.kind, id |-> id,
            epoch |-> f.epoch, k |-> f.k]}
    /\ inflight' = inflight \ {f}
    /\ UNCHANGED <<NEXT_ID, NEXT_WINDOW_ID, windows, allocs, sinceReset,
                   resets, winCalls, a, b, op, out>>

\* Id::unique: Self(Internal::Unique(id))
UniqueReturn ==
    \E f \in inflight : f.kind = "unique" /\ Return(f, Unique(f.id))

\* Id::new: Self(Internal::Custom(.., id.into()))
NewReturn ==
    \E f \in inflight : f.kind = "new" /\ Return(f, Custom(f.id, f.name))

\* Id::reset
Reset ==
    /\ ThreadIdle
    /\ resets < MaxResets
    /\ LET s == reset(Statics)
       IN  /\ NEXT_ID' = s.NEXT_ID
           /\ NEXT_WINDOW_ID' = s.NEXT_WINDOW_ID
    /\ resets' = resets + 1
    /\ sinceReset' = 0
    /\ UNCHANGED <<inflight, results, windows, allocs, winCalls,
                   a, b, op, out>>

\* window_node_id, up to and including NEXT_WINDOW_ID.fetch_add(1)
WindowFetch ==
    /\ ThreadIdle
    /\ winCalls < MaxWindows
    /\ LET r == window_fetch(Statics)
       IN  /\ NEXT_ID' = r.statics.NEXT_ID
           /\ NEXT_WINDOW_ID' = r.statics.NEXT_WINDOW_ID
           /\ inflight' = inflight \cup
                 {[kind |-> "window", id |-> r.ret, name |-> "",
                   call |-> winCalls + 1, epoch |-> resets, k |-> 0]}
    /\ winCalls' = winCalls + 1
    /\ UNCHANGED <<results, windows, allocs, sinceReset, resets,
                   a, b, op, out>>

\* window_node_id: NonZeroU128::try_from(u64::MAX as u128 + ..).unwrap()
WindowReturn ==
    \E f \in inflight :
        /\ f.kind = "window"
        /\ windows' = windows \cup
              {[n |-> f.call, epoch |-> f.epoch,
                handle |-> window_handle(f.id)]}
        /\ inflight' = inflight \ {f}
        /\ UNCHANGED <<NEXT_ID, NEXT_WINDOW_ID, results, allocs, sinceReset,
                       resets, winCalls, a, b, op, out>>

Next ==
    \/ UniqueFetch
    \/ UniqueReturn
    \/ NewFetch
    \/ NewReturn
    \/ Reset
    \/ WindowFetch
    \/ WindowReturn

Spec == Init /\ [][Next]_vars

(***************************************************************************)
(* The pure functions, applied to two identifiers of the universe.         *)
(***************************************************************************)
InitEq ==
    /\ InitStatics
    /\ a \in Ids
    /\ b \in Ids
    /\ op = "none"
    /\ out = FALSE

Apply(name, result) ==
    /\ op = "none"
    /\ op' = name
    /\ out' = result
    /\ UNCHANGED <<a, b>>
    /\ UNCHANGED allocVars

\* a == b
ApplyPartialEq == Apply("eq", PartialEq(a, b))

\* IdEq::eq(&a, &b)
ApplyIdEq == Apply("ideq", IdEq(a, b))

\* a.hash(state) and b.hash(state), each on a fresh hasher
ApplyHash == Apply("hash", [a |-> Hash(a), b |-> Hash(b)])

\* NonZeroU128::from(a)
ApplyInto == Apply("into", IntoNonZeroU128(a))

NextEq ==
    \/ ApplyPartialEq
    \/ ApplyIdEq
    \/ ApplyHash
    \/ ApplyInto

SpecEq == InitEq /\ [][NextEq]_vars

(***************************************************************************)
(* Properties of the allocators (Spec).                                    *)
(***************************************************************************)
\* the allocations of Id::next that are known: returned, or held in a frame
Allocated ==
    {[call |-> r.call, seq |-> r.id.id, epoch |-> r.epoch, k |-> r.k]
        : r \in results}
    \cup {[call |-> f.call, seq |-> f.id, epoch |-> f.epoch, k |-> f.k]
            : f \in {g \in inflight : g.kind # "window"}}

\* u64::MAX as u128 + n, for a call number n
MaxPlus(n) == WrappingAdd(AsU128(U64_MAX), AsU128(U64(n)))

\* C1: while Id::reset has never been called, any two results of
\* Id::unique, whatever the interleaving with other callers of Id::unique
\* and Id::new, are structurally unequal.
C1_UniqueDistinct ==
    resets = 0 =>
        \A r1 \in results : \A r2 \in results :
            (r1.kind = "unique" /\ r2.kind = "unique" /\ r1.call # r2.call)
                => ~PartialEq(r1.id, r2.id)

C1_Witness ==
    /\ resets = 0
    /\ \E r1 \in results : \E r2 \in results :
          r1.kind = "unique" /\ r2.kind = "unique" /\ r1.call # r2.call

\* C4: every handle window_node_id returned is nonzero, equals
\* u64::MAX + n with n >= 1, is above u64::MAX and so differs from, and is
\* greater than, the 128-bit form of every general sequence number.
C4_WindowDisjoint ==
    \A w \in windows :
        /\ ~w.handle.panic
        /\ w.handle.value # Zero128
        /\ w.n >= 1
        /\ w.handle.value = MaxPlus(w.n)
        /\ Less(AsU128(U64_MAX), w.handle.value)
        /\ \A x \in Allocated :
              /\ w.handle.value # AsU128(x.seq)
              /\ Less(AsU128(x.seq), w.handle.value)

\* a window handle and an identifier drawn from the same counter value
C4_Witness ==
    \E w \in windows : \E r \in results : r.id.id = U64(w.n)

\* C7 as claimed: two Id::new(s) results of one name, with no reset between
\* the two calls, are structurally unequal and domain-equivalent.
C7_Original ==
    \A r1 \in results : \A r2 \in results :
        (/\ r1.kind = "new" /\ r2.kind = "new"
         /\ r1.call # r2.call
         /\ r1.epoch = r2.epoch
         /\ r1.id.name = r2.id.name)
            => ~PartialEq(r1.id, r2.id) /\ IdEq(r1.id, r2.id)

\* C7 as amended: two Id::new(s) results of one name, with no reset between
\* the two calls, have different sequence numbers, are structurally EQUAL
\* (== compares the names only) and are domain-equivalent.
C7_SameNameEqual ==
    \A r1 \in results : \A r2 \in results :
        (/\ r1.kind = "new" /\ r2.kind = "new"
         /\ r1.call # r2.call
         /\ r1.epoch = r2.epoch
         /\ r1.id.name = r2.id.name)
            => /\ r1.id.id # r2.id.id
               /\ PartialEq(r1.id, r2.id)
               /\ IdEq(r1.id, r2.id)

C7_Witness ==
    \E r1 \in results : \E r2 \in results :
        /\ r1.kind = "new" /\ r2.kind = "new"
        /\ r1.call # r2.call
        /\ r1.epoch = r2.epoch
        /\ r1.id.name = r2.id.name

\* C9: the k-th allocation since the start or since the last Id::reset gets
\* sequence number k; the counter is one past the number of allocations
\* since then, so it is 1 after a reset; numbers are not reused between
\* resets.
C9_KthAllocationIsK ==
    /\ NEXT_ID = U64(sinceReset + 1)
    /\ \A x \in Allocated : x.k >= 1 /\ x.seq = U64(x.k)
    /\ \A x \in Allocated : \A y \in Allocated :
          (x.epoch = y.epoch /\ x.call # y.call) => x.seq # y.seq

\* number 1 handed out again after a reset while its first holder is kept
C9_Witness ==
    \E r1 \in results : \E r2 \in results :
        /\ r1.epoch < r2.epoch
        /\ r1.id.id = U64(1)
        /\ r2.id.id = U64(1)

C10_State ==
    /\ NEXT_WINDOW_ID = U64(winCalls + 1)
    /\ \A w \in windows : ~w.handle.panic /\ w.handle.value = MaxPlus(w.n)
    /\ \A w1 \in windows : \A w2 \in windows :
          w1.n # w2.n => w1.handle.value # w2.handle.value

C10_Step ==
    /\ (allocs' # allocs \/ resets' # resets)
          => NEXT_WINDOW_ID' = NEXT_WINDOW_ID
    /\ winCalls' # winCalls => NEXT_ID' = NEXT_ID

\* C10: a step of Id::new, Id::unique or Id::reset leaves NEXT_WINDOW_ID
\* unchanged and a step of window_node_id leaves NEXT_ID unchanged; the n-th
\* window_node_id call returns u64::MAX + n and the handles are pairwise
\* distinct, resets included.
C10_CountersIndependent == []C10_State /\ [][C10_Step]_vars

\* two handles, the second fetched after a reset
C10_Witness ==
    \E w1 \in windows : \E w2 \in windows :
        w1.epoch = 0 /\ w2.epoch >= 1 /\ w1.n < w2.n

(***************************************************************************)
(* Properties of the pure functions (SpecEq).                              *)
(***************************************************************************)
IsSet(x) == x.tag = "Set"

\* C2: structurally equal identifiers feed the same data to the hasher.
C2_HashAgreesWithEq ==
    op = "hash" => (PartialEq(a, b) => out.a = out.b)

\* C3: for a Set and a non-Set, in either order, IdEq::eq holds iff IdEq::eq
\* holds between some member of the Set and the non-Set.
C3_SetMatchesByIdEq ==
    (op = "ideq" /\ IsSet(a) # IsSet(b)) =>
        LET S == IF IsSet(a) THEN a ELSE b
            x == IF IsSet(a) THEN b ELSE a
        IN  out = (\E i \in 1..Len(S.ids) : IdEq(S.ids[i], x))

\* C5: the conversion to NonZeroU128 panics exactly for a Set, and for a
\* Unique or Custom it returns the sequence number.
C5_IntoPanicsOnlyForSet ==
    op = "into" =>
        /\ out.panic = IsSet(a)
        /\ ~IsSet(a) => out.value = AsU128(a.id)

\* C6: for non-Set identifiers IdEq::eq holds iff the sequence numbers are
\* equal, or both are Custom and the names are equal.
C6_NonSetIdEq ==
    (op = "ideq" /\ ~IsSet(a) /\ ~IsSet(b)) =>
        out = (\/ a.id = b.id
               \/ (a.tag = "Custom" /\ b.tag = "Custom" /\ a.name = b.name))

\* two Customs matched by name alone
C6_Witness ==
    /\ op = "ideq"
    /\ a.tag = "Custom" /\ b.tag = "Custom"
    /\ a.id # b.id /\ a.name = b.name
    /\ out = TRUE

\* the variant of an identifier with its natural key: the sequence number of
\* a Unique, the name of a Custom, the keys of the members of a Set in order
RECURSIVE Key(_)
Key(x) ==
    CASE x.tag = "Unique" -> [variant |-> "Unique", seq |-> x.id]
      [] x.tag = "Custom" -> [variant |-> "Custom", name |-> x.name]
      [] OTHER ->
            [variant |-> "Set",
             members |-> [i \in 1..Len(x.ids) |-> Key(x.ids[i])]]

\* C8: a == b iff a and b are of one variant and agree on its natural key;
\* identifiers of different variants are never ==.
C8_StructuralEq ==
    op = "eq" =>
        /\ out = (Key(a) = Key(b))
        /\ a.tag # b.tag => out = FALSE

\* two Sets of two members, == although a Custom member differs in its number
C8_Witness ==
    /\ op = "eq"
    /\ IsSet(a) /\ IsSet(b)
    /\ Len(a.ids) = 2 /\ a # b
    /\ out = TRUE

====
